---- MODULE Spec2Model ----
(***************************************************************************)
(* convert_usd_to_gltf.py: a wrapper that runs the external tool usd2gltf  *)
(* on an input path and an output path and prints what happened.           *)
(*                                                                         *)
(* One behaviour of the model is one execution: either the script run      *)
(* directly (the __main__ block with its hardcoded paths) or one call of   *)
(* convert_usd_to_gltf(input_usd, output_gltf) by some other caller.       *)
(* The environment (which files exist, whether usd2gltf can be found and   *)
(* executed, what the tool prints and how it exits) is nondeterministic.   *)
(***************************************************************************)
EXTENDS Integers, Sequences, FiniteSets, TLC

VARIABLES
    entry,        \* "script": run directly; "call": convert_usd_to_gltf called
    input_usd,    \* the input path (a str)
    output_gltf,  \* the output path (a str)
    files,        \* the paths that exist in the filesystem
    tool,         \* usd2gltf on PATH: "absent", "noexec" (found, not executable), "ok"
    pc,           \* "main", "call", "waiting", "end", "exited"
    proc,         \* the child process: "none", "nostart", "running", "exited"
    argv,         \* the argument list the child was (to be) started with
    spawns,       \* how many times a start of the child was attempted
    returncode,   \* the child's exit status
    stdout,       \* the bytes captured from the child's standard output
    stderr,       \* the bytes captured from the child's standard error
    console,      \* the lines printed by the script, in order
    result,       \* convert_usd_to_gltf: "none", "returned", "raised"
    exc,          \* the exception that left convert_usd_to_gltf, or "none"
    exit          \* the script's exit status: <<>> while running, then <<n>>

vars == <<entry, input_usd, output_gltf, files, tool, pc, proc, argv, spawns,
          returncode, stdout, stderr, console, result, exc, exit>>

----------------------------------------------------------------------------
(* Bounds of the environment *)

\* the longest byte string the tool writes to one of its streams
MaxLen == 2

\* the bytes the tool writes: "O", "K", and the two bytes of U+00E9 in UTF-8
\* (0xC3 0xA9), which are invalid UTF-8 alone or in the wrong order
ByteAlphabet == {79, 75, 195, 169}

ByteStrings == UNION {[1..n -> ByteAlphabet] : n \in 0..MaxLen}

\* exit statuses of the tool: success, failure, killed by a signal
ExitCodes == {0, 1, -9}

\* paths a caller of convert_usd_to_gltf passes
CallInputs == {"a.usd", "missing.usd"}
CallOutputs == {"a.glb", "out dir/b.gltf"}

\* a path that exists in no initial state
NeverExisting == {"missing.usd"}

----------------------------------------------------------------------------
(* The hardcoded example paths of the script *)

ScriptInput == "Scenes/universalrobots-ur3e.usd"
ScriptOutput == "Scenes/universalrobots-ur3e.glb"

----------------------------------------------------------------------------
(* bytes.decode(): UTF-8, errors="strict" *)

\* the character of a code point; one outside the letters used here is
\* written U+<number>
Chr(cp) ==
    CASE cp = 79 -> "O"
      [] cp = 75 -> "K"
      [] OTHER -> "U+" \o ToString(cp)

IsCont(b, i) == i <= Len(b) /\ b[i] \in 128..191

\* the number of bytes of the sequence whose lead byte is b[i]; 0 if invalid
SeqLen(b, i) ==
    LET c == b[i] IN
    IF c < 128 THEN 1
    ELSE IF c \in 194..223 THEN (IF IsCont(b, i + 1) THEN 2 ELSE 0)
    ELSE IF c \in 224..239 THEN
        (IF /\ IsCont(b, i + 1) /\ IsCont(b, i + 2)
            /\ (c = 224 => b[i + 1] >= 160)
            /\ (c = 237 => b[i + 1] <= 159)
         THEN 3 ELSE 0)
    ELSE IF c \in 240..244 THEN
        (IF /\ IsCont(b, i + 1) /\ IsCont(b, i + 2) /\ IsCont(b, i + 3)
            /\ (c = 240 => b[i + 1] >= 144)
            /\ (c = 244 => b[i + 1] <= 143)
         THEN 4 ELSE 0)
    ELSE 0

\* the code point of the valid n-byte sequence starting at b[i]
CodePoint(b, i, n) ==
    CASE n = 1 -> b[i]
      [] n = 2 -> (b[i] - 192) * 64 + (b[i + 1] - 128)
      [] n = 3 -> (b[i] - 224) * 4096 + (b[i + 1] - 128) * 64 + (b[i + 2] - 128)
      [] n = 4 -> (b[i] - 240) * 262144 + (b[i + 1] - 128) * 4096
                  + (b[i + 2] - 128) * 64 + (b[i + 3] - 128)

RECURSIVE DecodeFrom(_, _)
DecodeFrom(b, i) ==
    IF i > Len(b) THEN [ok |-> TRUE, text |-> ""]
    ELSE LET n == SeqLen(b, i) IN
         IF n = 0 THEN [ok |-> FALSE, text |-> ""]
         ELSE LET rest == DecodeFrom(b, i + n) IN
              IF rest.ok
              THEN [ok |-> TRUE, text |-> Chr(CodePoint(b, i, n)) \o rest.text]
              ELSE rest

\* ok = FALSE: decode() raises UnicodeDecodeError
Decode(b) == DecodeFrom(b, 1)

----------------------------------------------------------------------------
(* The messages *)

NotFoundMsg(path) == "Input USD file not found: " \o path
SuccessMsg(path) == "Conversion successful: " \o path
ErrorMsg(text) == "Error during conversion: " \o text
ToolNotFoundMsg == "usd2gltf tool not found. Please install it and add it to your PATH."

\* what a printed line is (used by the properties below)
StartsWith(s, p) == Len(s) >= Len(p) /\ SubSeq(s, 1, Len(p)) = p
IsNotFound(l) == StartsWith(l, "Input USD file not found: ")
IsSuccess(l) == StartsWith(l, "Conversion successful: ")
IsError(l) == StartsWith(l, "Error during conversion: ")
IsToolNotFound(l) == l = "usd2gltf tool not found. Please install it and add it to your PATH."
IsOutcome(l) == IsNotFound(l) \/ IsSuccess(l) \/ IsError(l) \/ IsToolNotFound(l)

Printed(Is(_)) == \E i \in DOMAIN console : Is(console[i])

\* a variant with the two paths in each other's place
ArgvSwapped(in, out) == <<"usd2gltf", out, "-o", in>>

\* the argument list of subprocess.run
Argv(in, out) == <<"usd2gltf", in, "-o", out>>

----------------------------------------------------------------------------
Init ==
    /\ entry \in {"script", "call"}
    /\ input_usd \in (IF entry = "script" THEN {ScriptInput} ELSE CallInputs)
    /\ output_gltf \in (IF entry = "script" THEN {ScriptOutput} ELSE CallOutputs)
    /\ files \in SUBSET ({input_usd, output_gltf} \ NeverExisting)
    /\ tool \in {"absent", "noexec", "ok"}
    /\ pc = (IF entry = "script" THEN "main" ELSE "call")
    /\ proc = "none"
    /\ argv = <<>>
    /\ spawns = 0
    /\ returncode = 0
    /\ stdout = <<>>
    /\ stderr = <<>>
    /\ console = <<>>
    /\ result = "none"
    /\ exc = "none"
    /\ exit = <<>>

----------------------------------------------------------------------------
\* a variant without the existence check
MainNoCheck ==
    /\ entry = "script"
    /\ pc = "main"
    /\ pc' = "call"
    /\ UNCHANGED <<entry, input_usd, output_gltf, files, tool, proc, argv,
                   spawns, returncode, stdout, stderr, console, result, exc,
                   exit>>

(* The script run directly: the existence check of the __main__ block.     *)
(* An existing input leads to the call; otherwise the message is printed   *)
(* and the end of the script is reached.                                   *)

Main ==
    /\ entry = "script"
    /\ pc = "main"
    /\ IF input_usd \in files
       THEN /\ pc' = "call"
            /\ console' = console
       ELSE /\ pc' = "end"
            /\ console' = Append(console, NotFoundMsg(input_usd))
    /\ UNCHANGED <<entry, input_usd, output_gltf, files, tool, proc, argv,
                   spawns, returncode, stdout, stderr, result, exc, exit>>

(* subprocess.run starts the child.  usd2gltf absent from PATH: the        *)
(* FileNotFoundError is caught and reported.  usd2gltf found but not       *)
(* executable: the PermissionError matches no except clause and leaves     *)
(* the function.  Otherwise the child runs and the call blocks.            *)

Spawn ==
    /\ pc = "call"
    /\ spawns' = spawns + 1
    /\ argv' = Argv(input_usd, output_gltf)
    /\ CASE tool = "absent" ->
              /\ proc' = "nostart"
              /\ console' = Append(console, ToolNotFoundMsg)
              /\ result' = "returned"
              /\ exc' = exc
              /\ pc' = "end"
         [] tool = "noexec" ->
              /\ proc' = "nostart"
              /\ console' = console
              /\ result' = "raised"
              /\ exc' = "PermissionError"
              /\ pc' = "end"
         [] tool = "ok" ->
              /\ proc' = "running"
              /\ console' = console
              /\ result' = result
              /\ exc' = exc
              /\ pc' = "waiting"
    /\ UNCHANGED <<entry, input_usd, output_gltf, files, tool, returncode,
                   stdout, stderr, exit>>

(* The external tool exits: any status, any bytes on its two streams; it   *)
(* may have written the file named after -o.                               *)

ToolExit ==
    /\ proc = "running"
    /\ proc' = "exited"
    /\ returncode' \in ExitCodes
    /\ stdout' \in ByteStrings
    /\ stderr' \in ByteStrings
    /\ files' \in {files, files \cup {argv[4]}}
    /\ UNCHANGED <<entry, input_usd, output_gltf, tool, pc, argv, spawns,
                   console, result, exc, exit>>

(* subprocess.run returns once the child has exited with status zero:    *)
(* the decoded standard output is printed, then the success message.  A    *)
(* decode() that fails raises UnicodeDecodeError, which no except clause   *)
(* matches.                                                                *)

RunSucceeds ==
    /\ pc = "waiting"
    /\ proc = "exited"
    /\ returncode = 0
    /\ pc' = "end"
    /\ LET out == Decode(stdout)
       IN IF out.ok
          THEN /\ console' = console \o <<out.text, SuccessMsg(output_gltf)>>
               /\ result' = "returned"
               /\ exc' = exc
          ELSE /\ console' = console
               /\ result' = "raised"
               /\ exc' = "UnicodeDecodeError"
    /\ UNCHANGED <<entry, input_usd, output_gltf, files, tool, proc, argv,
                   spawns, returncode, stdout, stderr, exit>>

\* a variant whose handler removes what the tool left at the output path
RunFailsCleanup ==
    /\ pc = "waiting"
    /\ proc = "exited"
    /\ returncode # 0
    /\ pc' = "end"
    /\ files' = files \ {output_gltf}
    /\ LET err == Decode(stderr)
       IN IF err.ok
          THEN /\ console' = Append(console, ErrorMsg(err.text))
               /\ result' = "returned"
               /\ exc' = exc
          ELSE /\ console' = console
               /\ result' = "raised"
               /\ exc' = "UnicodeDecodeError"
    /\ UNCHANGED <<entry, input_usd, output_gltf, tool, proc, argv, spawns,
                   returncode, stdout, stderr, exit>>

(* The child has exited with another status: check=True raises             *)
(* CalledProcessError, whose handler prints the decoded standard error.    *)
(* A decode() that fails there raises UnicodeDecodeError out of the        *)
(* handler.                                                                *)

RunFails ==
    /\ pc = "waiting"
    /\ proc = "exited"
    /\ returncode # 0
    /\ pc' = "end"
    /\ LET err == Decode(stderr)
       IN IF err.ok
          THEN /\ console' = Append(console, ErrorMsg(err.text))
               /\ result' = "returned"
               /\ exc' = exc
          ELSE /\ console' = console
               /\ result' = "raised"
               /\ exc' = "UnicodeDecodeError"
    /\ UNCHANGED <<entry, input_usd, output_gltf, files, tool, proc, argv,
                   spawns, returncode, stdout, stderr, exit>>

\* a variant that exits with status 1 unless the conversion succeeded
ExitStatusByOutcome(res) ==
    IF res = "raised" \/ ~Printed(IsSuccess) THEN 1 ELSE 0

(* The end of the script: status 0 when its last statement completed,      *)
(* status 1 when an exception was never caught.                            *)

ExitStatus(res) == IF res = "raised" THEN 1 ELSE 0

ScriptExit ==
    /\ entry = "script"
    /\ pc = "end"
    /\ pc' = "exited"
    /\ exit' = <<ExitStatus(result)>>
    /\ UNCHANGED <<entry, input_usd, output_gltf, files, tool, proc, argv,
                   spawns, returncode, stdout, stderr, console, result, exc>>

Next ==
    \/ Main
    \/ Spawn
    \/ ToolExit
    \/ RunSucceeds
    \/ RunFails
    \/ ScriptExit

Spec == Init /\ [][Next]_vars

----------------------------------------------------------------------------
(* Properties *)

\* the execution is over: the call has returned or raised, or the script
\* has reached its end
Ended == pc \in {"end", "exited"}

\* the number of report lines on the console
Reports == Cardinality({i \in DOMAIN console : IsOutcome(console[i])})

(* C1 as stated: for an input path that does not exist, the conversion     *)
(* (a call of convert_usd_to_gltf as well as the script) never attempts    *)
(* to start the external process and reports "Input USD file not found:    *)
(* <input path>".                                                          *)
C1_MissingInputNeverSpawns ==
    input_usd \notin files =>
        /\ spawns = 0
        /\ proc = "none"
        /\ Ended => console = <<"Input USD file not found: " \o input_usd>>

(* C1 amended: the script run directly, for an input path that does not    *)
(* exist, never attempts to start the external process, and when it ends   *)
(* the console holds "Input USD file not found: <input path>" and nothing  *)
(* else.                                                                   *)
C1_ScriptMissingInputNeverSpawns ==
    (entry = "script" /\ input_usd \notin files) =>
        /\ spawns = 0
        /\ proc = "none"
        /\ argv = <<>>
        /\ Ended => console = <<"Input USD file not found: " \o input_usd>>

C1_Witness ==
    /\ entry = "script"
    /\ input_usd \notin files
    /\ pc = "exited"
    /\ console = <<"Input USD file not found: Scenes/universalrobots-ur3e.usd">>

(* C2: for an existing input path, when the external tool has exited with  *)
(* status zero, the console shows the tool's standard-output text and      *)
(* then "Conversion successful: <output path>", and nothing else.          *)
C2_SuccessShowsStdoutThenMessage ==
    (input_usd \in files /\ Ended /\ proc = "exited" /\ returncode = 0) =>
        /\ Decode(stdout).ok
        /\ console = <<Decode(stdout).text,
                       "Conversion successful: " \o output_gltf>>

(* C3: for an existing input path, when the external tool has exited with  *)
(* a non-zero status, the console shows "Error during conversion: "        *)
(* followed by the tool's standard-error text and nothing else, and        *)
(* convert_usd_to_gltf has returned normally.                              *)
C3_FailureShowsStderr ==
    (input_usd \in files /\ Ended /\ proc = "exited" /\ returncode # 0) =>
        /\ result = "returned"
        /\ Decode(stderr).ok
        /\ console = <<"Error during conversion: " \o Decode(stderr).text>>

(* C4: for an existing input path, when the external executable could not  *)
(* be located or started, the "usd2gltf tool not found" message is         *)
(* printed, and neither the success nor the error message.                 *)
C4_NotStartedShowsToolNotFound ==
    (input_usd \in files /\ Ended /\ proc = "nostart") =>
        /\ Printed(IsToolNotFound)
        /\ ~Printed(IsSuccess)
        /\ ~Printed(IsError)

(* C5: however the attempt to start and run the external tool ends,        *)
(* convert_usd_to_gltf returns normally: no exception leaves it, and the   *)
(* script does not end with the status of an uncaught exception.           *)
C5_NoErrorLeavesTheInvoker ==
    (Ended /\ spawns > 0) =>
        /\ result = "returned"
        /\ exc = "none"
        /\ exit # <<1>>

(* C6: the script ends with the same exit status, 0, in each of the        *)
(* outcomes it reports (input not found, success, tool-reported failure,   *)
(* tool not found): the outcome shows in the printed text only.            *)
C6_SameExitStatusForEveryOutcome ==
    (entry = "script" /\ pc = "exited" /\ Printed(IsOutcome)) => exit = <<0>>

C6_Witness ==
    /\ entry = "script"
    /\ pc = "exited"
    /\ Printed(IsError)
    /\ returncode # 0
    /\ exit = <<0>>

(* C7: one execution attempts to start the external process at most once   *)
(* (no retry after any outcome), and the only step that changes what       *)
(* exists at the output path is the external tool's own run.               *)
C7_AtMostOneSpawnOutputUntouched ==
    [][/\ spawns' <= 1
       /\ (Ended => spawns' = spawns)
       /\ (files' # files =>
              /\ proc = "running"
              /\ proc' = "exited"
              /\ files' = files \cup {output_gltf})]_vars

C7_Witness ==
    /\ Ended
    /\ spawns = 1
    /\ proc = "exited"
    /\ returncode # 0
    /\ output_gltf \in files

(* C8: the external process is started with the tool name usd2gltf and     *)
(* the arguments <input path>, -o, <output path>, in that order, the two   *)
(* paths as the caller gave them.                                          *)
C8_ArgumentVector ==
    spawns > 0 => argv = <<"usd2gltf", input_usd, "-o", output_gltf>>

C8_Witness ==
    /\ proc = "exited"
    /\ argv = <<"usd2gltf", "a.usd", "-o", "a.glb">>

(* C9, its parts that a state refutes: nothing of the outcome (standard    *)
(* output text, success, error, tool not found) is printed before the      *)
(* external process has exited or failed to start; and a call that has     *)
(* ended has returned in one of the outcomes success, tool-reported        *)
(* failure, tool not found.                                                *)
C9_BlockingThenTerminalOutcome ==
    /\ (spawns > 0 /\ console # <<>>) => proc \in {"exited", "nostart"}
    /\ (Ended /\ spawns > 0) =>
          /\ result = "returned"
          /\ console # <<>>
          /\ LET last == console[Len(console)]
             IN IsSuccess(last) \/ IsError(last) \/ IsToolNotFound(last)

(* The parts of C9 that hold.  Blocking: nothing is printed by a call      *)
(* before the external process has exited or failed to start, and the      *)
(* call has not ended while the process runs.  EndsOnceToolExits, under    *)
(* FairSpec (the interpreter goes on once subprocess.run unblocks; the     *)
(* tool itself is under no obligation to exit): a call whose process has   *)
(* exited ends, by returning or by raising.                                *)
Blocking ==
    /\ (spawns > 0 /\ console # <<>>) => proc \in {"exited", "nostart"}
    /\ proc = "running" => ~Ended

FairSpec == Spec /\ WF_vars(Spawn) /\ WF_vars(RunSucceeds) /\ WF_vars(RunFails)

EndsOnceToolExits == (proc = "exited") ~> Ended

(* C10: a completed run of the script has printed exactly one of the four  *)
(* messages, and "Conversion successful" if and only if the external       *)
(* process was started and exited with status zero.                        *)
C10_ExactlyOneOutcome ==
    (entry = "script" /\ pc = "exited") =>
        /\ Reports = 1
        /\ Printed(IsSuccess) <=> (proc = "exited" /\ returncode = 0)

====
